---- MODULE Spec2Model ----
(***************************************************************************)
(* paper-analyze: statistics over compiled Move units.                     *)
(*                                                                         *)
(* main() compiles and verifies the units, then walks every unit with      *)
(* count_module / count_script, which thread one mutable Counts through    *)
(* count_function_signature, count_instructions and count_instruction,     *)
(* and finally prints the report.                                          *)
(*                                                                         *)
(* The module holds two renderings of that code.  The operators named      *)
(* after the source functions compute a whole call (Counts in, Counts      *)
(* out).  The actions execute the same code one statement at a time, with  *)
(* a program counter, the locals of each function and a call stack, so     *)
(* that the states inside a call are states of the model.                  *)
(***************************************************************************)
EXTENDS Integers, Sequences, FiniteSets

(***************************************************************************)
(* Bounds of the checked input space.                                      *)
(***************************************************************************)
\* units in the corpus handed to main
MaxUnits == 2
\* function definitions in the whole corpus (a script is one function)
MaxDefs == 2
\* instructions in a stream handed to count_instructions on its own
MaxStream == 3
\* tokens in a signature handed to count_function_signature on its own
MaxSig == 2
\* entries of an acquires list handed to count_function_signature on its own
MaxAcquires == 2

(***************************************************************************)
(* The data read by the code.                                              *)
(***************************************************************************)
\* Bytecode variants: the eleven that count_instruction names, and three of
\* the many it leaves to the wildcard arm.
TrackedBytecode ==
    { "ImmBorrowLoc", "MutBorrowLoc",
      "ImmBorrowField", "ImmBorrowFieldGeneric",
      "MutBorrowField", "MutBorrowFieldGeneric",
      "ImmBorrowGlobal", "ImmBorrowGlobalGeneric",
      "MutBorrowGlobal", "MutBorrowGlobalGeneric",
      "FreezeRef" }

OtherBytecode == { "Pop", "Ret", "MoveFrom" }

Bytecode == TrackedBytecode \cup OtherBytecode

\* SignatureToken variants: the two reference ones and one of the others.
SignatureToken == { "Reference", "MutableReference", "U64" }

\* fdef.code == None
NoCode == [present |-> FALSE]

\* fdef.code == Some(CodeUnit { code, .. })
SomeCode(code) == [present |-> TRUE, code |-> code]

\* The fields of struct Counts.
CountsFields ==
    { "imm_borrow_loc", "mut_borrow_loc", "imm_borrow_field", "mut_borrow_field",
      "imm_borrow_global", "mut_borrow_global", "freeze", "total_instructions",
      "reference_parameters", "reference_return_values", "acquires_annotations",
      "total_functions", "functions_with_reference_operations",
      "functions_with_reference_signatures", "functions_with_acquires",
      "total_modules", "modules_with_acquires" }

\* Counts::default(): every field zero.
CountsDefault == [f \in CountsFields |-> 0]

(***************************************************************************)
(* The functions, each computing one whole call.                           *)
(***************************************************************************)
\* Counts::total_reference_operations
total_reference_operations(c) ==
    c.imm_borrow_loc + c.mut_borrow_loc + c.imm_borrow_field + c.mut_borrow_field
        + c.imm_borrow_global + c.mut_borrow_global + c.freeze

\* match_instruction with the FreezeRef arm missing
match_instruction_NoFreeze(c, instr) ==
    CASE instr = "ImmBorrowLoc" -> [c EXCEPT !.imm_borrow_loc = @ + 1]
      [] instr = "MutBorrowLoc" -> [c EXCEPT !.mut_borrow_loc = @ + 1]
      [] instr \in {"ImmBorrowField", "ImmBorrowFieldGeneric"} ->
            [c EXCEPT !.imm_borrow_field = @ + 1]
      [] instr \in {"MutBorrowField", "MutBorrowFieldGeneric"} ->
            [c EXCEPT !.mut_borrow_field = @ + 1]
      [] instr \in {"ImmBorrowGlobal", "ImmBorrowGlobalGeneric"} ->
            [c EXCEPT !.imm_borrow_global = @ + 1]
      [] instr \in {"MutBorrowGlobal", "MutBorrowGlobalGeneric"} ->
            [c EXCEPT !.mut_borrow_global = @ + 1]
      [] OTHER -> c

\* match_instruction with the generic variants left to the wildcard arm
match_instruction_GenericsDropped(c, instr) ==
    CASE instr = "ImmBorrowLoc" -> [c EXCEPT !.imm_borrow_loc = @ + 1]
      [] instr = "MutBorrowLoc" -> [c EXCEPT !.mut_borrow_loc = @ + 1]
      [] instr = "ImmBorrowField" -> [c EXCEPT !.imm_borrow_field = @ + 1]
      [] instr = "MutBorrowField" -> [c EXCEPT !.mut_borrow_field = @ + 1]
      [] instr = "ImmBorrowGlobal" -> [c EXCEPT !.imm_borrow_global = @ + 1]
      [] instr = "MutBorrowGlobal" -> [c EXCEPT !.mut_borrow_global = @ + 1]
      [] instr = "FreezeRef" -> [c EXCEPT !.freeze = @ + 1]
      [] OTHER -> c

\* The match of count_instruction
match_instruction(c, instr) ==
    CASE instr = "ImmBorrowLoc" -> [c EXCEPT !.imm_borrow_loc = @ + 1]
      [] instr = "MutBorrowLoc" -> [c EXCEPT !.mut_borrow_loc = @ + 1]
      [] instr \in {"ImmBorrowField", "ImmBorrowFieldGeneric"} ->
            [c EXCEPT !.imm_borrow_field = @ + 1]
      [] instr \in {"MutBorrowField", "MutBorrowFieldGeneric"} ->
            [c EXCEPT !.mut_borrow_field = @ + 1]
      [] instr \in {"ImmBorrowGlobal", "ImmBorrowGlobalGeneric"} ->
            [c EXCEPT !.imm_borrow_global = @ + 1]
      [] instr \in {"MutBorrowGlobal", "MutBorrowGlobalGeneric"} ->
            [c EXCEPT !.mut_borrow_global = @ + 1]
      [] instr = "FreezeRef" -> [c EXCEPT !.freeze = @ + 1]
      [] OTHER -> c

\* count_instruction
count_instruction(c, instr) ==
    match_instruction([c EXCEPT !.total_instructions = @ + 1], instr)

\* The for loop of count_instructions, from instruction i on
RECURSIVE count_instructions_from(_, _, _)
count_instructions_from(c, code, i) ==
    IF i > Len(code) THEN c
    ELSE count_instructions_from(count_instruction(c, code[i]), code, i + 1)

\* count_instructions
count_instructions(c, code) ==
    LET before_ref == total_reference_operations(c)
        c1 == count_instructions_from(c, code, 1)
        after_ref == total_reference_operations(c1)
    IN  IF after_ref > before_ref
        THEN [c1 EXCEPT !.functions_with_reference_operations = @ + 1]
        ELSE c1

\* The pattern SignatureToken::Reference(_) | SignatureToken::MutableReference(_)
is_reference(token) == token \in {"Reference", "MutableReference"}

\* One of the two token loops of count_function_signature, from token i on:
\* the state is the pair of the has_reference flag and the Counts.
RECURSIVE count_tokens_from(_, _, _, _)
count_tokens_from(st, tokens, field, i) ==
    IF i > Len(tokens) THEN st
    ELSE IF is_reference(tokens[i])
         THEN count_tokens_from(
                  [has_reference |-> TRUE, counts |-> [st.counts EXCEPT ![field] = @ + 1]],
                  tokens, field, i + 1)
         ELSE count_tokens_from(st, tokens, field, i + 1)

\* count_function_signature
count_function_signature(c, params, rets, acqs) ==
    LET s0 == [has_reference |-> FALSE,
               counts |-> [c EXCEPT !.total_functions = @ + 1]]
        s1 == count_tokens_from(s0, params, "reference_parameters", 1)
        s2 == count_tokens_from(s1, rets, "reference_return_values", 1)
        c3 == IF s2.has_reference
              THEN [s2.counts EXCEPT !.functions_with_reference_signatures = @ + 1]
              ELSE s2.counts
        c4 == IF acqs # <<>>
              THEN [c3 EXCEPT !.functions_with_acquires = @ + 1]
              ELSE c3
    IN  [c4 EXCEPT !.acquires_annotations = @ + Len(acqs)]

\* The body of count_module's for loop, for one function definition
count_function_def(c, module, fdef) ==
    LET fhandle == module.function_handles[fdef.function + 1]
        c1 == count_function_signature(c,
                  module.signatures[fhandle.parameters + 1],
                  module.signatures[fhandle.return_ + 1],
                  fdef.acquires_global_resources)
    IN  IF fdef.code.present THEN count_instructions(c1, fdef.code.code) ELSE c1

\* The for loop of count_module, from function definition i on
RECURSIVE count_function_defs_from(_, _, _)
count_function_defs_from(c, module, i) ==
    IF i > Len(module.function_defs) THEN c
    ELSE count_function_defs_from(
             count_function_def(c, module, module.function_defs[i]), module, i + 1)

\* count_module comparing the acquires after the module with zero, not with
\* the acquires before it
count_module_AnyAcquires(c, module) ==
    LET c0 == [c EXCEPT !.total_modules = @ + 1]
        c1 == count_function_defs_from(c0, module, 1)
        after_acq == c1.acquires_annotations
    IN  IF after_acq > 0
        THEN [c1 EXCEPT !.modules_with_acquires = @ + 1]
        ELSE c1

\* count_module
count_module(c, module) ==
    LET c0 == [c EXCEPT !.total_modules = @ + 1]
        before_acq == c0.acquires_annotations
        c1 == count_function_defs_from(c0, module, 1)
        after_acq == c1.acquires_annotations
    IN  IF after_acq > before_acq
        THEN [c1 EXCEPT !.modules_with_acquires = @ + 1]
        ELSE c1

\* count_script
count_script(c, script) ==
    count_instructions(
        count_function_signature(c, script.signatures[script.parameters + 1], <<>>, <<>>),
        script.code.code)

\* The match of main's loop
count_unit(c, unit) ==
    IF unit.kind = "Script" THEN count_script(c, unit) ELSE count_module(c, unit)

\* main's loop over the compiled units, from unit i on
RECURSIVE count_units_from(_, _, _)
count_units_from(c, units, i) ==
    IF i > Len(units) THEN c
    ELSE count_units_from(count_unit(c, units[i]), units, i + 1)

(***************************************************************************)
(* The inputs.                                                             *)
(***************************************************************************)
\* All sequences over S of length at most n
SeqUpTo(S, n) == UNION { [1 .. k -> S] : k \in 0 .. n }

\* A function of the pool, before it is laid out in a module's tables
Fn(params, rets, acqs, code) ==
    [parameters |-> params, return_ |-> rets, acquires |-> acqs, code |-> code]

\* A native function: no body, no reference, no acquires
FnNative == Fn(<<"U64">>, <<>>, <<>>, NoCode)

\* One reference parameter and three reference instructions
FnBorrows ==
    Fn(<<"Reference">>, <<>>, <<>>,
       SomeCode(<<"ImmBorrowLoc", "MutBorrowField", "FreezeRef">>))

\* Two acquires, a reference returned, global borrows
FnAcquiresTwo ==
    Fn(<<"U64">>, <<"MutableReference">>, <<0, 1>>,
       SomeCode(<<"MutBorrowGlobal", "ImmBorrowGlobalGeneric", "Ret">>))

\* One acquires, two reference parameters, no reference instruction
FnAcquiresOne ==
    Fn(<<"MutableReference", "Reference">>, <<>>, <<0>>,
       SomeCode(<<"MoveFrom", "Ret">>))

\* Nothing that is counted but the function and its instructions
FnPlain == Fn(<<"U64", "U64">>, <<"U64">>, <<>>, SomeCode(<<"Pop", "Ret">>))

FnPool == { FnNative, FnBorrows, FnAcquiresTwo, FnAcquiresOne, FnPlain }

\* CompiledModule of the functions fs.  Handle 0 is the handle of an imported
\* function (signature 0 for both); the function defined i-th has handle i,
\* its parameters in signature 2i-1 and its return types in signature 2i.
MkModule(fs) ==
    [kind |-> "Module",
     signatures |->
        [j \in 1 .. (2 * Len(fs) + 1) |->
            IF j = 1 THEN <<"Reference">>
            ELSE IF j % 2 = 0 THEN fs[j \div 2].parameters
            ELSE fs[j \div 2].return_],
     function_handles |->
        [j \in 1 .. (Len(fs) + 1) |->
            IF j = 1 THEN [parameters |-> 0, return_ |-> 0]
            ELSE [parameters |-> 2 * (j - 1) - 1, return_ |-> 2 * (j - 1)]],
     function_defs |->
        [i \in 1 .. Len(fs) |->
            [function |-> i,
             acquires_global_resources |-> fs[i].acquires,
             code |-> fs[i].code]]]

\* CompiledScript: signature 0 is unused, the parameters are signature 1.
MkScript(params, code) ==
    [kind |-> "Script",
     signatures |-> << <<"MutableReference">>, params >>,
     parameters |-> 1,
     code |-> SomeCode(code)]

ScriptPool ==
    { MkScript(<<"U64">>, <<"MutBorrowGlobal">>),
      MkScript(<<>>, <<"Ret">>),
      MkScript(<<"Reference">>, <<"ImmBorrowLoc", "Pop">>) }

\* The modules of exactly n functions of the pool
ModulesOf(n) == { MkModule(fs) : fs \in [1 .. n -> FnPool] }

\* The units of exactly n function definitions
UnitsOf(n) == IF n = 1 THEN ModulesOf(1) \cup ScriptPool ELSE ModulesOf(n)

\* The corpora of at most u units and at most d function definitions
RECURSIVE CorporaOf(_, _)
CorporaOf(u, d) ==
    IF u = 0 THEN { <<>> }
    ELSE { <<>> } \cup
         UNION { { <<unit>> \o rest : unit \in UnitsOf(n), rest \in CorporaOf(u - 1, d - n) }
                 : n \in 0 .. d }

Corpora == CorporaOf(MaxUnits, MaxDefs)

\* The acquires lists <<0, .., k-1>>
AcquiresLists == { [i \in 1 .. k |-> i - 1] : k \in 0 .. MaxAcquires }

(***************************************************************************)
(* The state of the statement-by-statement execution.                      *)
(***************************************************************************)
VARIABLES
    pc,                 \* the statement about to run
    stack,              \* the callers: where to return to, and the Counts at the call
    counts,             \* main's `counts`, borrowed mutably by every function
    compiled_units,     \* main: the units returned by verify_units
    errors,             \* main: the errors returned by verify_units
    unit_idx,           \* main: units taken by the for loop
    report,             \* main: what counts.print() wrote, "none" before
    unit,               \* count_module's `module` / count_script's `script`
    before_acquires,    \* count_module: local
    fdef_idx,           \* count_module: function definitions taken by the for loop
    parameters,         \* count_function_signature: argument
    return_types,       \* count_function_signature: argument
    acquires,           \* count_function_signature: argument
    has_reference,      \* count_function_signature: local
    token_idx,          \* count_function_signature: tokens taken by the running loop
    code,               \* count_instructions: argument
    before_reference_instruction,   \* count_instructions: local
    instr_idx           \* count_instructions: instructions taken by the for loop

mainVars == <<compiled_units, errors, unit_idx, report>>
unitVars == <<unit, before_acquires, fdef_idx>>
sigVars == <<parameters, return_types, acquires, has_reference, token_idx>>
codeVars == <<code, before_reference_instruction, instr_idx>>
vars == <<pc, stack, counts, mainVars, unitVars, sigVars, codeVars>>

\* A caller's frame: the statement to return to and the Counts when it called
Frame(ret, entry) == [ret |-> ret, entry |-> entry]

\* A unit that is no unit: the value of `unit` outside count_module / count_script
NoUnit == [kind |-> "none"]

\* The locals before any function has run
LocalsInit ==
    /\ unit = NoUnit
    /\ before_acquires = 0
    /\ fdef_idx = 0
    /\ parameters = <<>>
    /\ return_types = <<>>
    /\ acquires = <<>>
    /\ has_reference = FALSE
    /\ token_idx = 0
    /\ code = <<>>
    /\ before_reference_instruction = 0
    /\ instr_idx = 0

MainInit ==
    /\ compiled_units = <<>>
    /\ errors = <<>>
    /\ unit_idx = 0
    /\ report = "none"

(***************************************************************************)
(* count_function_signature, statement by statement.                       *)
(***************************************************************************)
\* counts.total_functions += 1; let mut has_reference = false;
SigEnter ==
    /\ pc = "cfs_enter"
    /\ counts' = [counts EXCEPT !.total_functions = @ + 1]
    /\ has_reference' = FALSE
    /\ token_idx' = 0
    /\ pc' = "cfs_params"
    /\ UNCHANGED <<stack, mainVars, unitVars, parameters, return_types, acquires, codeVars>>

\* SigParameter counting the function once per reference parameter
SigParameter_PerOccurrence ==
    /\ pc = "cfs_params"
    /\ IF token_idx < Len(parameters)
       THEN /\ token_idx' = token_idx + 1
            /\ IF is_reference(parameters[token_idx + 1])
               THEN /\ has_reference' = TRUE
                    /\ counts' = [counts EXCEPT
                                    !.reference_parameters = @ + 1,
                                    !.functions_with_reference_signatures = @ + 1]
               ELSE UNCHANGED <<has_reference, counts>>
            /\ pc' = "cfs_params"
       ELSE /\ token_idx' = 0
            /\ pc' = "cfs_returns"
            /\ UNCHANGED <<has_reference, counts>>
    /\ UNCHANGED <<stack, mainVars, unitVars, parameters, return_types, acquires, codeVars>>

\* for parameter in parameters { match parameter { .. } }
SigParameter ==
    /\ pc = "cfs_params"
    /\ IF token_idx < Len(parameters)
       THEN /\ token_idx' = token_idx + 1
            /\ IF is_reference(parameters[token_idx + 1])
               THEN /\ has_reference' = TRUE
                    /\ counts' = [counts EXCEPT !.reference_parameters = @ + 1]
               ELSE UNCHANGED <<has_reference, counts>>
            /\ pc' = "cfs_params"
       ELSE /\ token_idx' = 0
            /\ pc' = "cfs_returns"
            /\ UNCHANGED <<has_reference, counts>>
    /\ UNCHANGED <<stack, mainVars, unitVars, parameters, return_types, acquires, codeVars>>

\* for return_type in return_types { match return_type { .. } }
SigReturnType ==
    /\ pc = "cfs_returns"
    /\ IF token_idx < Len(return_types)
       THEN /\ token_idx' = token_idx + 1
            /\ IF is_reference(return_types[token_idx + 1])
               THEN /\ has_reference' = TRUE
                    /\ counts' = [counts EXCEPT !.reference_return_values = @ + 1]
               ELSE UNCHANGED <<has_reference, counts>>
            /\ pc' = "cfs_returns"
       ELSE /\ token_idx' = 0
            /\ pc' = "cfs_has_reference"
            /\ UNCHANGED <<has_reference, counts>>
    /\ UNCHANGED <<stack, mainVars, unitVars, parameters, return_types, acquires, codeVars>>

\* if has_reference { counts.functions_with_reference_signatures += 1; }
SigHasReference ==
    /\ pc = "cfs_has_reference"
    /\ counts' = IF has_reference
                 THEN [counts EXCEPT !.functions_with_reference_signatures = @ + 1]
                 ELSE counts
    /\ pc' = "cfs_acquires"
    /\ UNCHANGED <<stack, mainVars, unitVars, sigVars, codeVars>>

\* SigHasAcquires counting the function once per acquires annotation
SigHasAcquires_PerAnnotation ==
    /\ pc = "cfs_acquires"
    /\ counts' = [counts EXCEPT !.functions_with_acquires = @ + Len(acquires)]
    /\ pc' = "cfs_annotations"
    /\ UNCHANGED <<stack, mainVars, unitVars, sigVars, codeVars>>

\* if !acquires.is_empty() { counts.functions_with_acquires += 1; }
SigHasAcquires ==
    /\ pc = "cfs_acquires"
    /\ counts' = IF acquires # <<>>
                 THEN [counts EXCEPT !.functions_with_acquires = @ + 1]
                 ELSE counts
    /\ pc' = "cfs_annotations"
    /\ UNCHANGED <<stack, mainVars, unitVars, sigVars, codeVars>>

\* counts.acquires_annotations += acquires.len();
SigAnnotations ==
    /\ pc = "cfs_annotations"
    /\ counts' = [counts EXCEPT !.acquires_annotations = @ + Len(acquires)]
    /\ pc' = "cfs_ret"
    /\ UNCHANGED <<stack, mainVars, unitVars, sigVars, codeVars>>

(***************************************************************************)
(* count_instructions and count_instruction, statement by statement.       *)
(***************************************************************************)
\* let before_reference_instruction = counts.total_reference_operations();
InstrsBefore ==
    /\ pc = "cis_before"
    /\ before_reference_instruction' = total_reference_operations(counts)
    /\ instr_idx' = 0
    /\ pc' = "cis_loop"
    /\ UNCHANGED <<stack, counts, mainVars, unitVars, sigVars, code>>

\* for instr in code { count_instruction(counts, instr) }
InstrsLoop ==
    /\ pc = "cis_loop"
    /\ IF instr_idx < Len(code)
       THEN /\ instr_idx' = instr_idx + 1
            /\ pc' = "ci_total"
       ELSE /\ instr_idx' = instr_idx
            /\ pc' = "cis_after"
    /\ UNCHANGED <<stack, counts, mainVars, unitVars, sigVars, code,
                   before_reference_instruction>>

\* count_instruction: counts.total_instructions += 1;
InstrTotal ==
    /\ pc = "ci_total"
    /\ counts' = [counts EXCEPT !.total_instructions = @ + 1]
    /\ pc' = "ci_match"
    /\ UNCHANGED <<stack, mainVars, unitVars, sigVars, codeVars>>

\* count_instruction: match instr { .. }, and the return to the loop
InstrMatch ==
    /\ pc = "ci_match"
    /\ counts' = match_instruction(counts, code[instr_idx])
    /\ pc' = "cis_loop"
    /\ UNCHANGED <<stack, mainVars, unitVars, sigVars, codeVars>>

\* InstrsAfter counting the function once per reference operation
InstrsAfter_PerOperation ==
    /\ pc = "cis_after"
    /\ counts' = [counts EXCEPT !.functions_with_reference_operations =
                    @ + (total_reference_operations(counts) - before_reference_instruction)]
    /\ pc' = "cis_ret"
    /\ UNCHANGED <<stack, mainVars, unitVars, sigVars, codeVars>>

\* let after_reference_instruction = ..; if after > before { .. += 1; }
InstrsAfter ==
    /\ pc = "cis_after"
    /\ counts' = IF total_reference_operations(counts) > before_reference_instruction
                 THEN [counts EXCEPT !.functions_with_reference_operations = @ + 1]
                 ELSE counts
    /\ pc' = "cis_ret"
    /\ UNCHANGED <<stack, mainVars, unitVars, sigVars, codeVars>>

(***************************************************************************)
(* count_script, statement by statement.                                   *)
(***************************************************************************)
\* ScriptSignature passing the parameters as the return types too
ScriptSignature_ReturnsAreParameters ==
    /\ pc = "cs_sig"
    /\ parameters' = unit.signatures[unit.parameters + 1]
    /\ return_types' = unit.signatures[unit.parameters + 1]
    /\ acquires' = <<>>
    /\ stack' = << Frame("cs_code", counts) >> \o stack
    /\ pc' = "cfs_enter"
    /\ UNCHANGED <<counts, mainVars, unitVars, has_reference, token_idx, codeVars>>

\* count_function_signature(counts, &script.signatures[..].0, &vec![], &vec![]);
ScriptSignature ==
    /\ pc = "cs_sig"
    /\ parameters' = unit.signatures[unit.parameters + 1]
    /\ return_types' = <<>>
    /\ acquires' = <<>>
    /\ stack' = << Frame("cs_code", counts) >> \o stack
    /\ pc' = "cfs_enter"
    /\ UNCHANGED <<counts, mainVars, unitVars, has_reference, token_idx, codeVars>>

\* count_instructions(counts, &script.code.code)
ScriptCode ==
    /\ pc = "cs_code"
    /\ code' = unit.code.code
    /\ stack' = << Frame("cs_ret", counts) >> \o stack
    /\ pc' = "cis_before"
    /\ UNCHANGED <<counts, mainVars, unitVars, sigVars,
                   before_reference_instruction, instr_idx>>

(***************************************************************************)
(* count_module, statement by statement.                                   *)
(***************************************************************************)
\* counts.total_modules += 1;
ModuleTotal ==
    /\ pc = "cm_total"
    /\ counts' = [counts EXCEPT !.total_modules = @ + 1]
    /\ pc' = "cm_before"
    /\ UNCHANGED <<stack, mainVars, unitVars, sigVars, codeVars>>

\* let before_acquires = counts.acquires_annotations;
ModuleBefore ==
    /\ pc = "cm_before"
    /\ before_acquires' = counts.acquires_annotations
    /\ fdef_idx' = 0
    /\ pc' = "cm_loop"
    /\ UNCHANGED <<stack, counts, mainVars, unit, sigVars, codeVars>>

\* for fdef in &module.function_defs
ModuleLoop ==
    /\ pc = "cm_loop"
    /\ IF fdef_idx < Len(unit.function_defs)
       THEN /\ fdef_idx' = fdef_idx + 1
            /\ pc' = "cm_sig"
       ELSE /\ fdef_idx' = fdef_idx
            /\ pc' = "cm_after"
    /\ UNCHANGED <<stack, counts, mainVars, unit, before_acquires, sigVars, codeVars>>

\* let fhandle = ..; count_function_signature(counts, .., .., &fdef.acquires_global_resources);
ModuleSignature ==
    /\ pc = "cm_sig"
    /\ LET fdef == unit.function_defs[fdef_idx]
           fhandle == unit.function_handles[fdef.function + 1]
       IN  /\ parameters' = unit.signatures[fhandle.parameters + 1]
           /\ return_types' = unit.signatures[fhandle.return_ + 1]
           /\ acquires' = fdef.acquires_global_resources
    /\ stack' = << Frame("cm_code", counts) >> \o stack
    /\ pc' = "cfs_enter"
    /\ UNCHANGED <<counts, mainVars, unitVars, has_reference, token_idx, codeVars>>

\* if let Some(code) = &fdef.code { count_instructions(counts, &code.code) }
ModuleCode ==
    /\ pc = "cm_code"
    /\ LET fdef == unit.function_defs[fdef_idx]
       IN  IF fdef.code.present
           THEN /\ code' = fdef.code.code
                /\ stack' = << Frame("cm_loop", counts) >> \o stack
                /\ pc' = "cis_before"
           ELSE /\ pc' = "cm_loop"
                /\ UNCHANGED <<code, stack>>
    /\ UNCHANGED <<counts, mainVars, unitVars, sigVars,
                   before_reference_instruction, instr_idx>>

\* ModuleAfter comparing the acquires with zero, not with before_acquires
ModuleAfter_AnyAcquires ==
    /\ pc = "cm_after"
    /\ counts' = IF counts.acquires_annotations > 0
                 THEN [counts EXCEPT !.modules_with_acquires = @ + 1]
                 ELSE counts
    /\ pc' = "cm_ret"
    /\ UNCHANGED <<stack, mainVars, unitVars, sigVars, codeVars>>

\* ModuleAfter comparing with >=, so that every module is counted
ModuleAfter_Always ==
    /\ pc = "cm_after"
    /\ counts' = IF counts.acquires_annotations >= before_acquires
                 THEN [counts EXCEPT !.modules_with_acquires = @ + 1]
                 ELSE counts
    /\ pc' = "cm_ret"
    /\ UNCHANGED <<stack, mainVars, unitVars, sigVars, codeVars>>

\* let after_acquires = ..; if after_acquires > before_acquires { .. += 1; }
ModuleAfter ==
    /\ pc = "cm_after"
    /\ counts' = IF counts.acquires_annotations > before_acquires
                 THEN [counts EXCEPT !.modules_with_acquires = @ + 1]
                 ELSE counts
    /\ pc' = "cm_ret"
    /\ UNCHANGED <<stack, mainVars, unitVars, sigVars, codeVars>>

(***************************************************************************)
(* main, statement by statement.                                           *)
(***************************************************************************)
\* What verify_units may return beside the units
VerifyErrors == { <<>>, << "verification error" >> }

\* Counts::print: the numbers of the report, in the order printed; a
\* percent!(x, y) is the pair <<x, y>>.
counts_print(c) ==
    [total_reference_operations |-> total_reference_operations(c),
     borrow_local |-> <<c.imm_borrow_loc + c.mut_borrow_loc, c.imm_borrow_loc, c.mut_borrow_loc>>,
     borrow_field |-> <<c.imm_borrow_field + c.mut_borrow_field, c.imm_borrow_field,
                        c.mut_borrow_field>>,
     borrow_global |-> <<c.imm_borrow_global + c.mut_borrow_global, c.imm_borrow_global,
                         c.mut_borrow_global>>,
     freeze |-> c.freeze,
     reference_instructions |-> <<total_reference_operations(c), c.total_instructions>>,
     total_annots |-> c.reference_parameters + c.reference_return_values
                         + c.acquires_annotations,
     function_type_annotations |->
        <<c.reference_parameters + c.reference_return_values, c.reference_parameters,
          c.reference_return_values>>,
     acquires_annotations |-> c.acquires_annotations,
     functions_with_reference_operations |->
        <<c.functions_with_reference_operations, c.total_functions>>,
     functions_with_reference_signatures |->
        <<c.functions_with_reference_signatures, c.total_functions>>,
     functions_with_acquires |-> <<c.functions_with_acquires, c.total_functions>>,
     modules_with_acquires |-> <<c.modules_with_acquires, c.total_modules>>]

\* move_lang::move_compile(..)?  : an Err leaves main at once
MainCompile ==
    /\ pc = "main_compile"
    /\ \E ok \in BOOLEAN : pc' = IF ok THEN "main_verify" ELSE "failed"
    /\ UNCHANGED <<stack, counts, mainVars, unitVars, sigVars, codeVars>>

\* let (compiled_units, errors) = compiled_unit::verify_units(compiled_units);
MainVerify ==
    /\ pc = "main_verify"
    /\ compiled_units' \in Corpora
    /\ errors' \in VerifyErrors
    /\ pc' = "main_assert"
    /\ UNCHANGED <<stack, counts, unit_idx, report, unitVars, sigVars, codeVars>>

\* MainAssert without the assertion
MainAssert_Ignored ==
    /\ pc = "main_assert"
    /\ pc' = "main_counts"
    /\ UNCHANGED <<stack, counts, mainVars, unitVars, sigVars, codeVars>>

\* assert!(errors.is_empty());
MainAssert ==
    /\ pc = "main_assert"
    /\ pc' = IF errors = <<>> THEN "main_counts" ELSE "panicked"
    /\ UNCHANGED <<stack, counts, mainVars, unitVars, sigVars, codeVars>>

\* let mut counts = Counts::default();
MainCounts ==
    /\ pc = "main_counts"
    /\ counts' = CountsDefault
    /\ unit_idx' = 0
    /\ pc' = "main_loop"
    /\ UNCHANGED <<stack, compiled_units, errors, report, unitVars, sigVars, codeVars>>

\* for unit in &compiled_units { match unit { Script => .., Module => .. } }
MainLoop ==
    /\ pc = "main_loop"
    /\ IF unit_idx < Len(compiled_units)
       THEN /\ unit_idx' = unit_idx + 1
            /\ unit' = compiled_units[unit_idx + 1]
            /\ stack' = << Frame("main_loop", counts) >> \o stack
            /\ pc' = IF compiled_units[unit_idx + 1].kind = "Script"
                     THEN "cs_sig" ELSE "cm_total"
       ELSE /\ pc' = "main_print"
            /\ UNCHANGED <<unit_idx, unit, stack>>
    /\ UNCHANGED <<counts, compiled_units, errors, report, before_acquires, fdef_idx,
                   sigVars, codeVars>>

\* counts.print(); Ok(())
MainReport ==
    /\ pc = "main_print"
    /\ report' = counts_print(counts)
    /\ pc' = "done"
    /\ UNCHANGED <<stack, counts, compiled_units, errors, unit_idx, unitVars, sigVars,
                   codeVars>>

(***************************************************************************)
(* The return of a function to its caller.                                 *)
(***************************************************************************)
RetLabels == { "cfs_ret", "cis_ret", "cs_ret", "cm_ret" }

Return ==
    /\ pc \in RetLabels
    /\ stack # <<>>
    /\ pc' = Head(stack).ret
    /\ stack' = Tail(stack)
    /\ UNCHANGED <<counts, mainVars, unitVars, sigVars, codeVars>>

(***************************************************************************)
(* count_function_signature on its own: one call on any signature of the   *)
(* bounded input space, from Counts::default() or from the Counts that one *)
(* unit of one function leaves.                                            *)
(***************************************************************************)
PriorCounts == { CountsDefault } \cup { count_unit(CountsDefault, u) : u \in UnitsOf(1) }

InitSig ==
    /\ pc = "cfs_enter"
    /\ counts \in PriorCounts
    /\ stack = << Frame("done", counts) >>
    /\ MainInit
    /\ unit = NoUnit /\ before_acquires = 0 /\ fdef_idx = 0
    /\ parameters \in SeqUpTo(SignatureToken, MaxSig)
    /\ return_types \in SeqUpTo(SignatureToken, MaxSig)
    /\ acquires \in AcquiresLists
    /\ has_reference = FALSE /\ token_idx = 0
    /\ code = <<>> /\ before_reference_instruction = 0 /\ instr_idx = 0

NextSig ==
    \/ SigEnter
    \/ SigParameter
    \/ SigReturnType
    \/ SigHasReference
    \/ SigHasAcquires
    \/ SigAnnotations
    \/ Return

SpecSig == InitSig /\ [][NextSig]_vars

(***************************************************************************)
(* count_instructions on its own: one call, from Counts::default(), on any *)
(* instruction stream of the bounded input space.                          *)
(***************************************************************************)
InitInstr ==
    /\ pc = "cis_before"
    /\ stack = << Frame("done", CountsDefault) >>
    /\ counts = CountsDefault
    /\ MainInit
    /\ unit = NoUnit /\ before_acquires = 0 /\ fdef_idx = 0
    /\ parameters = <<>> /\ return_types = <<>> /\ acquires = <<>>
    /\ has_reference = FALSE /\ token_idx = 0
    /\ code \in SeqUpTo(Bytecode, MaxStream)
    /\ before_reference_instruction = 0 /\ instr_idx = 0

NextInstr ==
    \/ InstrsBefore
    \/ InstrsLoop
    \/ InstrTotal
    \/ InstrMatch
    \/ InstrsAfter
    \/ Return

SpecInstr == InitInstr /\ [][NextInstr]_vars

(***************************************************************************)
(* The program: main, from its first statement.                            *)
(***************************************************************************)
Init ==
    /\ pc = "main_compile"
    /\ stack = <<>>
    /\ counts = CountsDefault
    /\ MainInit
    /\ LocalsInit

Next ==
    \/ MainCompile
    \/ MainVerify
    \/ MainAssert
    \/ MainCounts
    \/ MainLoop
    \/ MainReport
    \/ ScriptSignature
    \/ ScriptCode
    \/ ModuleTotal
    \/ ModuleBefore
    \/ ModuleLoop
    \/ ModuleSignature
    \/ ModuleCode
    \/ ModuleAfter
    \/ SigEnter
    \/ SigParameter
    \/ SigReturnType
    \/ SigHasReference
    \/ SigHasAcquires
    \/ SigAnnotations
    \/ InstrsBefore
    \/ InstrsLoop
    \/ InstrTotal
    \/ InstrMatch
    \/ InstrsAfter
    \/ Return

Spec == Init /\ [][Next]_vars

(***************************************************************************)
(* Properties.                                                             *)
(***************************************************************************)
\* The Counts when the function now running (or just finished) was called
Entry == Head(stack).entry

\* The number of reference tokens of a signature
NumReferences(tokens) ==
    Cardinality({ i \in 1 .. Len(tokens) : tokens[i] \in {"Reference", "MutableReference"} })

\* An instruction sequence holds a tracked reference instruction
HasTracked(instrs) == \E i \in 1 .. Len(instrs) : instrs[i] \in TrackedBytecode

\* The seven reference-operation counters
ReferenceCounters ==
    { "imm_borrow_loc", "mut_borrow_loc", "imm_borrow_field", "mut_borrow_field",
      "imm_borrow_global", "mut_borrow_global", "freeze" }

\* main is between two calls of count_module / count_script, or such a call
\* has run to its end
AtCallBoundary == pc \in { "main_loop", "main_print", "done", "cm_ret", "cs_ret" }

\* The two renderings of the code agree: a function that has run to its end
\* statement by statement leaves the Counts that its operator computes from
\* the Counts at its call.
RenderingsAgree ==
    /\ pc = "cfs_ret" =>
          counts = count_function_signature(Entry, parameters, return_types, acquires)
    /\ pc = "cis_ret" => counts = count_instructions(Entry, code)
    /\ pc = "cm_ret" => counts = count_module(Entry, unit)
    /\ pc = "cs_ret" => counts = count_script(Entry, unit)
    /\ pc = "main_loop" =>
          counts = count_units_from(CountsDefault, SubSeq(compiled_units, 1, unit_idx), 1)

\* C1: in every state of a run, the states inside a call included, each
\* functions_with_X counter is at most total_functions and
\* modules_with_acquires is at most total_modules.
C1_FlagsBoundedByTotals ==
    /\ counts.functions_with_reference_operations <= counts.total_functions
    /\ counts.functions_with_reference_signatures <= counts.total_functions
    /\ counts.functions_with_acquires <= counts.total_functions
    /\ counts.modules_with_acquires <= counts.total_modules

\* C1 witness: inside count_module, the second function visited has just been
\* walked, and every function so far has reference operations, a reference
\* signature and acquires, in a corpus whose first module was counted.
C1_Witness ==
    /\ pc = "cis_ret"
    /\ Len(stack) = 2
    /\ counts.total_functions = 2
    /\ counts.functions_with_reference_operations = 2
    /\ counts.functions_with_reference_signatures = 2
    /\ counts.functions_with_acquires = 2
    /\ counts.modules_with_acquires = 1
    /\ counts.total_modules = 2

\* The instructions of the stream that count_instruction has been called on
\* and has returned from
InstructionsDone == IF pc \in {"ci_total", "ci_match"} THEN instr_idx - 1 ELSE instr_idx

\* C2: for a stream fed through count_instruction from an all-zero Counts,
\* total_instructions is at least the sum of the seven reference counters in
\* every state, and between two calls of count_instruction it is that sum plus
\* the number of instructions visited that are no reference instruction.
C2_InstructionTotal ==
    /\ counts.total_instructions >= total_reference_operations(counts)
    /\ pc # "ci_match" =>
          counts.total_instructions =
              total_reference_operations(counts)
                + Cardinality({ i \in 1 .. InstructionsDone : code[i] \notin TrackedBytecode })

\* C2 witness: a whole stream of three instructions has been walked, two of
\* them reference instructions and one not.
C2_Witness ==
    /\ pc = "cis_ret"
    /\ Len(code) = 3
    /\ counts.total_instructions = 3
    /\ total_reference_operations(counts) = 2

\* The fields of Counts that a step changes
Changed == { f \in CountsFields : counts'[f] # counts[f] }

\* The non-generic counterpart of an instruction
NonGeneric(instr) ==
    CASE instr = "ImmBorrowFieldGeneric" -> "ImmBorrowField"
      [] instr = "MutBorrowFieldGeneric" -> "MutBorrowField"
      [] instr = "ImmBorrowGlobalGeneric" -> "ImmBorrowGlobal"
      [] instr = "MutBorrowGlobalGeneric" -> "MutBorrowGlobal"
      [] OTHER -> instr

\* C8: count_instruction adds 1 to total_instructions, then adds 1 to exactly
\* one of the seven reference counters for a tracked instruction and to none
\* for any other instruction; a generic field or global borrow changes Counts
\* exactly as its non-generic counterpart does.
C8_OneBucket ==
    [][ /\ pc = "ci_total" =>
            /\ Changed = {"total_instructions"}
            /\ counts'.total_instructions = counts.total_instructions + 1
        /\ pc = "ci_match" =>
            /\ code[instr_idx] \in TrackedBytecode =>
                 \E f \in ReferenceCounters :
                    /\ Changed = {f}
                    /\ counts'[f] = counts[f] + 1
            /\ code[instr_idx] \notin TrackedBytecode => Changed = {}
            /\ counts' = match_instruction(counts, NonGeneric(code[instr_idx]))
      ]_vars

\* C8 witness: a generic mutable field borrow, after an immutable field
\* borrow, has been counted as a mutable field borrow.
C8_Witness ==
    /\ pc = "cis_loop"
    /\ instr_idx = 2
    /\ code[1] = "ImmBorrowField"
    /\ code[2] = "MutBorrowFieldGeneric"
    /\ counts.mut_borrow_field = 1
    /\ counts.imm_borrow_field = 1
    /\ total_reference_operations(counts) = 2

\* C7: a call of count_function_signature leaves Counts as at its entry but
\* for total_functions + 1, reference_parameters and reference_return_values
\* plus the reference tokens of the parameters and of the return types,
\* functions_with_reference_signatures + 1 if there is such a token,
\* functions_with_acquires + 1 if acquires is not empty, and
\* acquires_annotations plus the length of acquires.
C7_SignatureDelta ==
    pc = "cfs_ret" =>
        counts =
            [Entry EXCEPT
                !.total_functions = @ + 1,
                !.reference_parameters = @ + NumReferences(parameters),
                !.reference_return_values = @ + NumReferences(return_types),
                !.functions_with_reference_signatures =
                    @ + (IF NumReferences(parameters) + NumReferences(return_types) >= 1
                         THEN 1 ELSE 0),
                !.functions_with_acquires = @ + (IF Len(acquires) > 0 THEN 1 ELSE 0),
                !.acquires_annotations = @ + Len(acquires)]

\* C7 witness: a call with two reference parameters, a reference return type
\* and two acquires has returned, from a Counts that was not all zero.
C7_Witness ==
    /\ pc = "cfs_ret"
    /\ NumReferences(parameters) = 2
    /\ NumReferences(return_types) = 1
    /\ Len(acquires) = 2
    /\ Entry.total_functions = 1
    /\ counts.functions_with_reference_signatures
          = Entry.functions_with_reference_signatures + 1
    /\ counts.functions_with_acquires = Entry.functions_with_acquires + 1

\* A module has a function definition with a non-empty acquires list
ModuleHasAcquires(module) ==
    \E i \in 1 .. Len(module.function_defs) :
        module.function_defs[i].acquires_global_resources # <<>>

\* C4: a call of count_module adds exactly 1 to total_modules, and adds
\* exactly 1 to modules_with_acquires if a function definition of the module
\* has a non-empty acquires list and nothing otherwise, whatever was counted
\* before the call.
C4_ModuleDelta ==
    pc = "cm_ret" =>
        /\ counts.total_modules = Entry.total_modules + 1
        /\ counts.modules_with_acquires =
              Entry.modules_with_acquires + (IF ModuleHasAcquires(unit) THEN 1 ELSE 0)

\* C4 witness: count_module has run on a module with a function but without
\* acquires, after a module with acquires was counted, and has not counted it.
C4_Witness ==
    /\ pc = "cm_ret"
    /\ Len(unit.function_defs) = 1
    /\ ~ModuleHasAcquires(unit)
    /\ Entry.acquires_annotations = 2
    /\ Entry.modules_with_acquires = 1
    /\ counts.modules_with_acquires = 1
    /\ counts.total_modules = 2

\* The bodies of the first k function definitions of a module
BodiesUpTo(module, k) ==
    { i \in 1 .. k : module.function_defs[i].code.present }

\* The sum of the lengths of the bodies of the first k function definitions
RECURSIVE BodyLengthsUpTo(_, _)
BodyLengthsUpTo(module, k) ==
    IF k = 0 THEN 0
    ELSE BodyLengthsUpTo(module, k - 1)
           + (IF module.function_defs[k].code.present
              THEN Len(module.function_defs[k].code.code) ELSE 0)

\* C5: a walk of one body adds exactly 1 to functions_with_reference_operations
\* if the body holds a tracked reference instruction and nothing otherwise;
\* after the first k function definitions of a module, the functions counted
\* with reference operations are those among the k with such a body, every
\* one of the k is in total_functions, and only the bodies that exist are in
\* total_instructions.
C5_FunctionsWithReferenceOperations ==
    /\ pc = "cis_ret" =>
          /\ counts.functions_with_reference_operations =
                Entry.functions_with_reference_operations
                  + (IF HasTracked(code) THEN 1 ELSE 0)
          /\ counts.total_instructions = Entry.total_instructions + Len(code)
    /\ pc = "cm_loop" =>
          /\ counts.functions_with_reference_operations =
                Entry.functions_with_reference_operations
                  + Cardinality({ i \in BodiesUpTo(unit, fdef_idx) :
                                    HasTracked(unit.function_defs[i].code.code) })
          /\ counts.total_functions = Entry.total_functions + fdef_idx
          /\ counts.total_instructions =
                Entry.total_instructions + BodyLengthsUpTo(unit, fdef_idx)

\* C5 witness: count_module has visited a function with three reference
\* instructions and then a function without a body: one function is counted
\* with reference operations, two functions in all, three instructions.
C5_Witness ==
    /\ pc = "cm_loop"
    /\ fdef_idx = 2
    /\ unit.function_defs[1].code.present
    /\ ~unit.function_defs[2].code.present
    /\ counts.functions_with_reference_operations = 1
    /\ counts.total_functions = 2
    /\ counts.total_instructions = 3
    /\ total_reference_operations(counts) = 3

\* C6: a call of count_script leaves total_modules, modules_with_acquires,
\* acquires_annotations, functions_with_acquires and reference_return_values
\* as they were and adds exactly 1 to total_functions.
C6_ScriptFrame ==
    pc = "cs_ret" =>
        /\ counts.total_modules = Entry.total_modules
        /\ counts.modules_with_acquires = Entry.modules_with_acquires
        /\ counts.acquires_annotations = Entry.acquires_annotations
        /\ counts.functions_with_acquires = Entry.functions_with_acquires
        /\ counts.reference_return_values = Entry.reference_return_values
        /\ counts.total_functions = Entry.total_functions + 1

\* C6 witness: count_script has run on a script with a reference parameter,
\* after a module with acquires and a returned reference was counted.
C6_Witness ==
    /\ pc = "cs_ret"
    /\ NumReferences(parameters) = 1
    /\ Entry.total_modules = 1
    /\ Entry.modules_with_acquires = 1
    /\ Entry.reference_return_values = 1
    /\ counts.total_functions = 2
    /\ counts.reference_parameters = 1

\* C9: when verify_units returns errors, main stops at the assertion: no
\* function that counts is ever entered, Counts stays all zero and no report
\* is written.
C9_ErrorsAbort ==
    errors # <<>> =>
        /\ pc \in { "main_assert", "panicked" }
        /\ stack = <<>>
        /\ counts = CountsDefault
        /\ report = "none"

\* C9 witness: main has panicked at the assertion, the errors beside a
\* corpus of two units.
C9_Witness ==
    /\ pc = "panicked"
    /\ errors # <<>>
    /\ Len(compiled_units) = 2

\* C10: whenever a call of count_module / count_script has run to its end,
\* modules_with_acquires <= functions_with_acquires <= acquires_annotations,
\* functions_with_reference_signatures <= reference_parameters +
\* reference_return_values, and functions_with_reference_operations <= the sum
\* of the seven reference counters.
C10_FlagsBoundedByOccurrences ==
    AtCallBoundary =>
        /\ counts.modules_with_acquires <= counts.functions_with_acquires
        /\ counts.functions_with_acquires <= counts.acquires_annotations
        /\ counts.functions_with_reference_signatures
              <= counts.reference_parameters + counts.reference_return_values
        /\ counts.functions_with_reference_operations <= total_reference_operations(counts)

\* C10 witness: two modules of one function with one acquires each have been
\* counted: two modules, two functions and two annotations with acquires.
C10_Witness ==
    /\ pc = "main_loop"
    /\ unit_idx = 2
    /\ counts.modules_with_acquires = 2
    /\ counts.functions_with_acquires = 2
    /\ counts.acquires_annotations = 2
    /\ counts.functions_with_reference_signatures = 2
    /\ counts.functions_with_reference_operations = 0

\* The permutations of a sequence
SeqPermutations(s) ==
    { [i \in 1 .. Len(s) |-> s[p[i]]] :
        p \in { q \in [1 .. Len(s) -> 1 .. Len(s)] :
                  \A i, j \in 1 .. Len(s) : q[i] = q[j] => i = j } }

\* A unit with its function definitions in any order
UnitReorderings(u) ==
    IF u.kind = "Module"
    THEN { [u EXCEPT !.function_defs = fds] : fds \in SeqPermutations(u.function_defs) }
    ELSE { u }

\* A corpus with its units in any order, each with its function definitions
\* in any order
CorpusReorderings(units) ==
    UNION { { v \in [1 .. Len(us) -> UNION { UnitReorderings(us[i]) : i \in 1 .. Len(us) }] :
                \A i \in 1 .. Len(us) : v[i] \in UnitReorderings(us[i]) }
            : us \in SeqPermutations(units) }

\* C3: the Counts that main ends with are the Counts of the walk of every
\* reordering of the corpus: the units in any order, the function definitions
\* of each module in any order.
C3_OrderIndependence ==
    pc = "done" =>
        \A v \in CorpusReorderings(compiled_units) :
            count_units_from(CountsDefault, v, 1) = counts

\* C3 witness: main has ended on a corpus of two units, a module of two
\* different function definitions and another module, which has four
\* reorderings; one module was counted with acquires.
C3_Witness ==
    /\ pc = "done"
    /\ Len(compiled_units) = 2
    /\ \E i \in 1 .. 2 :
          /\ compiled_units[i].kind = "Module"
          /\ Len(compiled_units[i].function_defs) = 2
          /\ compiled_units[i].function_defs[1] # compiled_units[i].function_defs[2]
    /\ Cardinality(CorpusReorderings(compiled_units)) = 4
    /\ counts.modules_with_acquires = 1
    /\ counts.total_modules = 2
    /\ counts.total_functions = 2

====
